---- MODULE Spec2Model ----
(***************************************************************************)
(* The harvester of logstash-forwarder (harvester.go): one Harvest         *)
(* invocation tails one file, assembles chunk reads into lines and pushes  *)
(* one FileEvent per line to the output channel; on exit it pushes its     *)
(* Offset to FinishChan.  The file, the clock, the event sink and the      *)
(* receiver of FinishChan are the environment.                             *)
(*                                                                         *)
(* Bytes are the strings "a", "b" (data), CR and LF.  File positions are   *)
(* 0-based as in the code; the byte at position p is file[p + 1].          *)
(* Durations are in seconds.  Computation takes no time: time passes in    *)
(* time.Sleep and while the harvester is blocked on a channel.  Only the   *)
(* two durations the code compares are kept (time since start_time and     *)
(* since last_read_time), each saturating just above its threshold.        *)
(* The harvester looks at the file only in read, so what the writer did    *)
(* since the previous chunk read is an input of each chunk read.  The sink *)
(* keeps the last event it received and counts the events.                 *)
(*                                                                         *)
(* Spec: the writer only appends, and a harvester that has returned may be *)
(* started again.  RotateSpec: the writer may also truncate the file, and  *)
(* there is one Harvest invocation.  LiveSpec: Spec with the harvester,    *)
(* the sink and the receiver of FinishChan taking their steps.             *)
(* ResumeRotateSpec: truncations and restarts together, without failures.  *)
(* StdinSpec: the path is "-" and standard input is a pipe.                *)
(***************************************************************************)
EXTENDS Integers, Sequences, FiniteSets, TLC

CR == "CR"
LF == "LF"

\* ---- bounds of the model ------------------------------------------------
MaxFileLen == 3      \* the file never holds more bytes than this
MaxTrunc == 1        \* truncations of the file by its writer
MaxRuns == 2         \* Harvest invocations on the same file, one after another
MaxDeadtime == 11    \* the larger of the two dead-times tried

\* ---- program constants --------------------------------------------------
read_timeout == 10   \* Harvest: var read_timeout = 10 * time.Second
eof_backoff == 1     \* readline: time.Sleep(1 * time.Second)
open_backoff == 5    \* open: time.Sleep(5 * time.Second)

VARIABLES
    Path,          \* h.Path: "-" for standard input, "path" for a file
    closed,        \* os.Stdin has been closed
    file,          \* the bytes of the file at Path (of the input, for standard input)
    gen,           \* how many times the writer has truncated the file
    rotations,     \* how many times the writer will truncate the file
    tailOnRotate,  \* options.tailOnRotate
    deadtime,      \* h.FileConfig.deadtime
    IsTracked,     \* h.IsTracked
    Offset,        \* h.Offset
    size,          \* h.size
    buffer,        \* Harvest's buffer (the partial line read so far)
    line,          \* Harvest's line counter
    elapsed,       \* time.Since(start_time) of the readline call in progress
    age,           \* time.Since(last_read_time)
    pc,            \* where the harvester is: read, eofsleep, push, finish, done
    exit,          \* why the loop ended: none, dead, aborted, panic
    event,         \* the event Harvest is pushing to output (<<>> when none)
    last,          \* the event the sink received last (<<>> before the first)
    received,      \* how many events the sink has received
    FinishChan,    \* the values received from h.FinishChan, in order
    run,           \* the number of the current Harvest invocation
    linesRead,     \* history: how many lines readline has returned, all runs
    lineEnd,       \* history: file position where the last completed line ended
    tailStart,     \* history: the file size a tailing harvester saw at its first open (-1 when none)
    grown,         \* history: the file changed after the first harvester first read it
    held,          \* history: bytes the previous harvester had buffered when it returned
    prior,         \* history: bytes of the pending event's line that earlier chunk reads buffered
    truncs         \* history: truncation signals handled by this harvester

vars == <<Path, closed, file, gen, rotations, tailOnRotate, deadtime, IsTracked, Offset, size,
          buffer, line, elapsed, age, pc, exit, event, last, received, FinishChan,
          run, linesRead, lineEnd, tailStart, grown, held, prior, truncs>>

envVars == <<file, gen, closed>>
cfgVars == <<Path, rotations, tailOnRotate, deadtime>>
sinkVars == <<event, last, received, linesRead, prior>>

Min(a, b) == IF a < b THEN a ELSE b

\* The byte the writer uses for data: "a" before the first truncation, "b" after.
DataByte(g) == IF g = 0 THEN "a" ELSE "b"

\* ---- the writer ---------------------------------------------------------
\* The contents f can grow to when the writer appends bytes of generation g.
RECURSIVE Appended(_, _)
Appended(f, g) ==
    IF Len(f) >= MaxFileLen THEN {f}
    ELSE {f} \cup UNION {Appended(Append(f, b), g) : b \in {DataByte(g), CR, LF}}

\* What the file can have become since it was f in generation g: the writer
\* appended bytes, or truncated it to length 0 (copy-truncate rotation) and
\* appended bytes of the next generation.
Written(f, g) ==
    {[file |-> w, gen |-> g] : w \in Appended(f, g)}
    \cup
    (IF g < rotations /\ Len(f) > 0
        THEN {[file |-> w, gen |-> g + 1] : w \in Appended(<<>>, g + 1)}
        ELSE {})

\* ---- time ---------------------------------------------------------------
\* d seconds pass: both durations grow, saturating above their thresholds.
ElapsedAfter(d) == Min(elapsed + d, read_timeout + 1)
AgeAfter(d) == Min(age + d, deadtime + 1)

\* ---- Harvester.open (the regular-file path) -----------------------------
\* (a variant whose tail branch does not set IsTracked)
openTailUntracked(f) ==
    IF IsTracked
        THEN [IsTracked |-> TRUE, Offset |-> Offset, pos |-> Offset]
    ELSE IF tailOnRotate
        THEN [IsTracked |-> FALSE, Offset |-> Len(f), pos |-> Len(f)]
    ELSE [IsTracked |-> TRUE, Offset |-> 0, pos |-> 0]

\* The harvester's position state after open succeeded on a regular file,
\* and the position the handle is left at.
open(f) ==
    IF IsTracked
        THEN [IsTracked |-> TRUE, Offset |-> Offset, pos |-> Offset]
    ELSE IF tailOnRotate
        THEN [IsTracked |-> TRUE, Offset |-> Len(f), pos |-> Len(f)]
    ELSE [IsTracked |-> TRUE, Offset |-> 0, pos |-> 0]

\* ---- bufio.Reader.ReadBytes('\n') ---------------------------------------
\* The bytes of f from position pos up to and including the first LF, or up
\* to the end of the file, and then the error is EOF.
RECURSIVE ReadBytes(_, _)
ReadBytes(f, pos) ==
    IF pos >= Len(f) THEN [seg |-> <<>>, err |-> "EOF"]
    ELSE IF f[pos + 1] = LF THEN [seg |-> <<LF>>, err |-> "nil"]
    ELSE LET rest == ReadBytes(f, pos + 1)
         IN  [seg |-> <<f[pos + 1]>> \o rest.seg, err |-> rest.err]

\* ---- Harvester.read -----------------------------------------------------
\* (a variant that does not seek past the bytes already buffered)
readFromOffset(f, offset) ==
    LET o == open(f)
        sz == Len(f)
    IN  IF sz < size
            THEN [open |-> o, size |-> sz, seg |-> <<>>, err |-> "FILE_TRUNCATED",
                  pos |-> o.pos]
        ELSE LET r == ReadBytes(f, o.pos)
             IN  [open |-> o, size |-> sz, seg |-> r.seg, err |-> r.err,
                  pos |-> o.pos]

\* (a variant that returns on truncation before recording the size)
readSizeNotRecorded(f, offset) ==
    LET o == open(f)
        sz == Len(f)
    IN  IF sz < size
            THEN [open |-> o, size |-> size, seg |-> <<>>, err |-> "FILE_TRUNCATED",
                  pos |-> o.pos]
        ELSE LET r == ReadBytes(f, o.pos + offset)
             IN  [open |-> o, size |-> sz, seg |-> r.seg, err |-> r.err,
                  pos |-> o.pos + offset]

\* One chunk read with `offset` bytes already buffered: open, stat, compare
\* the size with h.size, seek `offset` further, read up to the next LF.
read(f, offset) ==
    LET o == open(f)
        sz == Len(f)
    IN  IF sz < size
            THEN [open |-> o, size |-> sz, seg |-> <<>>, err |-> "FILE_TRUNCATED",
                  pos |-> o.pos]
        ELSE LET r == ReadBytes(f, o.pos + offset)
             IN  [open |-> o, size |-> sz, seg |-> r.seg, err |-> r.err,
                  pos |-> o.pos + offset]

\* ---- Harvester.readline: the terminator of a completed segment ----------
newline_length(segment) ==
    IF Len(segment) > 1 /\ segment[Len(segment) - 1] = CR THEN 2 ELSE 1

\* (a variant that returns the last segment only, dropping what was buffered)
lineResultSegmentOnly(buf, segment) ==
    [text |-> SubSeq(segment, 1, Len(segment) - newline_length(segment)),
     bytesread |-> Len(buf) + Len(segment)]

\* (a variant that does not count the terminator in the bytes read)
lineResultNoTerminator(buf, segment) ==
    LET whole == buf \o segment
    IN  [text |-> SubSeq(whole, 1, Len(whole) - newline_length(segment)),
         bytesread |-> Len(whole) - newline_length(segment)]

\* readline's result when the segment just read completes the line:
\* the text without the terminator, and the buffer size as bytes read.
lineResult(buf, segment) ==
    LET whole == buf \o segment
    IN  [text |-> SubSeq(whole, 1, Len(whole) - newline_length(segment)),
         bytesread |-> Len(whole)]

\* (a variant that builds the event before counting the line)
FileEventBeforeCount(off, ln, text) == [Offset |-> off, Line |-> ln - 1, Text |-> text]

\* Harvest's event for a line (Source, Fields and fileinfo are left out).
FileEvent(off, ln, text) == [Offset |-> off, Line |-> ln, Text |-> text]

\* Harvest: h.Offset += int64(bytesread)
advance(off, bytesread) == off + bytesread

\* (a variant that keeps the offset)
onTruncatedNoReset(buf) == [Offset |-> Offset, buffer |-> buf]

\* Harvest on FILE_TRUNCATED: h.Offset = 0, continue (the buffer is the same
\* object on the next readline call).
onTruncated(buf) == [Offset |-> 0, buffer |-> buf]

\* (a variant that counts the bytes read before the error as consumed)
onReadErrorAdvance(off, buf) == [Offset |-> off + Len(buf), buffer |-> buf]

\* readline on an error other than EOF: the bytes read are in the buffer and
\* (nil, 0, err) is returned; Harvest returns with Offset as it is.
onReadError(off, buf) == [Offset |-> off, buffer |-> buf]

\* (a variant that stops as soon as the idle time reaches the dead-time)
isDeadAtDeadtime(a) == a >= deadtime

\* (a variant that never gives up on an idle file)
isDeadNever(a) == FALSE

\* Harvest on io.EOF: stop when the file has been idle for more than deadtime.
isDead(a) == a > deadtime

\* (a variant that gives up as soon as the budget is reached)
timedOutAtBudget(e) == e >= read_timeout

\* readline: give up waiting once more than eof_timeout has passed.
timedOut(e) == e > read_timeout

\* ---- Init ---------------------------------------------------------------
Created ==
    /\ closed = FALSE
    /\ file = <<>>
    /\ gen = 0
    /\ IsTracked = FALSE
    /\ Offset = 0
    /\ size = 0
    /\ buffer = <<>>
    /\ line = 0
    /\ elapsed = 0
    /\ age = 0
    /\ pc = "read"
    /\ exit = "none"
    /\ event = <<>>
    /\ last = <<>>
    /\ received = 0
    /\ FinishChan = <<>>
    /\ run = 1
    /\ linesRead = 0
    /\ lineEnd = 0
    /\ tailStart = -1
    /\ grown = FALSE
    /\ held = 0
    /\ prior = 0
    /\ truncs = 0

\* An append-only file, harvested in either mode with a short or a long dead-time.
Init ==
    /\ Path = "path"
    /\ rotations = 0
    /\ tailOnRotate \in BOOLEAN
    /\ deadtime \in {0, MaxDeadtime}
    /\ Created

\* A file the writer rotates, harvested from its start.
InitRotate ==
    /\ Path = "path"
    /\ rotations = MaxTrunc
    /\ tailOnRotate = FALSE
    /\ deadtime = MaxDeadtime
    /\ Created

\* Standard input, a pipe, harvested in either mode.
InitStdin ==
    /\ Path = "-"
    /\ rotations = 0
    /\ tailOnRotate \in BOOLEAN
    /\ deadtime \in {0, MaxDeadtime}
    /\ Created

\* ---- the harvester ------------------------------------------------------
\* Harvest leaves its loop: what remains is the deferred push.  The clock
\* readings are locals of the call and are not kept.
Returned(why) ==
    /\ pc' = "finish"
    /\ exit' = why
    /\ elapsed' = 0
    /\ age' = 0

\* A chunk read finds the file as w and opens it.
Opened(w, r) ==
    /\ file' = w.file
    /\ gen' = w.gen
    /\ closed' = closed
    /\ tailStart' = IF ~IsTracked /\ tailOnRotate /\ tailStart = -1 THEN Len(w.file) ELSE tailStart
    /\ grown' = (grown \/ (~(run = 1 /\ ~IsTracked) /\ w.file # file))
    /\ IsTracked' = r.open.IsTracked
    /\ size' = r.size

\* read returns FILE_TRUNCATED; readline returns it; Harvest resets Offset
\* and calls readline again.
ReadTruncated ==
    /\ pc = "read"
    /\ \E w \in Written(file, gen) :
         LET r == read(w.file, Len(buffer))
             t == onTruncated(buffer)
         IN  /\ r.err = "FILE_TRUNCATED"
             /\ Opened(w, r)
             /\ Offset' = t.Offset
             /\ buffer' = t.buffer
             /\ lineEnd' = 0
    /\ truncs' = truncs + 1
    /\ elapsed' = 0
    /\ UNCHANGED <<cfgVars, sinkVars, line, age, pc, exit, FinishChan, run, held>>

\* read returns a segment ending in LF; readline returns the line; Harvest
\* stamps last_read_time, counts the line, builds the event, advances Offset
\* and blocks on the output channel.
ReadLine ==
    /\ pc = "read"
    /\ \E w \in Written(file, gen) :
         LET r == read(w.file, Len(buffer))
             res == lineResult(buffer, r.seg)
         IN  /\ r.err = "nil"
             /\ Opened(w, r)
             /\ buffer' = <<>>
             /\ event' = FileEvent(r.open.Offset, line + 1, res.text)
             /\ Offset' = advance(r.open.Offset, res.bytesread)
             /\ lineEnd' = r.pos + Len(r.seg)
    /\ prior' = Len(buffer)
    /\ age' = 0
    /\ line' = line + 1
    /\ linesRead' = linesRead + 1
    /\ pc' = "push"
    /\ UNCHANGED <<cfgVars, elapsed, exit, last, received, FinishChan, run, held, truncs>>

\* read reaches the end of the file before an LF: readline buffers the
\* segment and goes to sleep.
ReadPartial ==
    /\ pc = "read"
    /\ \E w \in Written(file, gen) :
         LET r == read(w.file, Len(buffer))
         IN  /\ r.err = "EOF"
             /\ Opened(w, r)
             /\ Offset' = r.open.Offset
             /\ buffer' = buffer \o r.seg
             /\ lineEnd' = (IF IsTracked THEN lineEnd ELSE r.open.pos)
    /\ pc' = "eofsleep"
    /\ UNCHANGED <<cfgVars, sinkVars, line, elapsed, age, exit, FinishChan, run, held, truncs>>

\* ReadBytes fails with an error other than EOF after n bytes, none of them
\* LF: readline buffers them and returns the error, Harvest returns.
ReadError ==
    /\ pc = "read"
    /\ \E w \in Written(file, gen) :
         LET r == read(w.file, Len(buffer))
         IN  /\ r.err # "FILE_TRUNCATED"
             /\ \E n \in 0 .. Len(r.seg) :
                  LET e == onReadError(r.open.Offset, buffer \o SubSeq(r.seg, 1, n))
                  IN  /\ n < Len(r.seg) \/ r.err = "EOF"
                      /\ buffer' = e.buffer
                      /\ Offset' = e.Offset
             /\ Opened(w, r)
             /\ lineEnd' = (IF IsTracked THEN lineEnd ELSE r.open.pos)
    /\ Returned("aborted")
    /\ UNCHANGED <<cfgVars, sinkVars, line, FinishChan, run, held, truncs>>

\* (a variant in which a failure to open ends the harvester)
onOpenErrorFatal == [pc |-> "finish", exit |-> "aborted"]

\* open when os.Open fails: sleep, then go round the retry loop.
onOpenError == [pc |-> "read", exit |-> "none"]

\* ---- standard input ----------------------------------------------------
\* open with Path "-": h.file = os.Stdin, nothing else.  read on the open
\* standard input: Stat (a pipe has size 0), Seek (fails on a pipe, ignored),
\* a new bufio.Reader, ReadBytes; what the reader took from the pipe past the
\* segment is dropped with the reader; the deferred h.file.Close() closes
\* os.Stdin.  `input` is what the pipe held.
readStdin(input) ==
    LET r == ReadBytes(input, 0)
    IN  [size |-> 0, seg |-> r.seg, err |-> r.err, closed |-> TRUE]

\* The first chunk read on standard input returns a line.
StdinReadLine ==
    /\ pc = "read"
    /\ ~closed
    /\ \E w \in Appended(file, gen) :
         LET r == readStdin(w)
             res == lineResult(buffer, r.seg)
         IN  /\ r.err = "nil"
             /\ file' = w
             /\ size' = r.size
             /\ closed' = r.closed
             /\ buffer' = <<>>
             /\ event' = FileEvent(Offset, line + 1, res.text)
             /\ Offset' = advance(Offset, res.bytesread)
             /\ lineEnd' = Len(r.seg)
    /\ prior' = Len(buffer)
    /\ age' = 0
    /\ line' = line + 1
    /\ linesRead' = linesRead + 1
    /\ pc' = "push"
    /\ UNCHANGED <<cfgVars, gen, IsTracked, elapsed, exit, last, received, FinishChan,
                   run, tailStart, grown, held, truncs>>

\* The first chunk read on standard input reaches the end of the input
\* before an LF.
StdinReadPartial ==
    /\ pc = "read"
    /\ ~closed
    /\ \E w \in Appended(file, gen) :
         LET r == readStdin(w)
         IN  /\ r.err = "EOF"
             /\ file' = w
             /\ size' = r.size
             /\ closed' = r.closed
             /\ buffer' = buffer \o r.seg
    /\ pc' = "eofsleep"
    /\ UNCHANGED <<cfgVars, sinkVars, gen, IsTracked, Offset, line, elapsed, age, exit,
                   FinishChan, run, lineEnd, tailStart, grown, held, truncs>>

\* A chunk read after os.Stdin was closed: Stat fails and returns a nil
\* FileInfo, info.Size() panics, and Harvest's deferred function runs.
StdinReadClosed ==
    /\ pc = "read"
    /\ closed
    /\ Returned("panic")
    /\ UNCHANGED <<envVars, cfgVars, sinkVars, IsTracked, Offset, size, buffer, line,
                   FinishChan, run, lineEnd, tailStart, grown, held, truncs>>

\* os.Open fails: open sleeps and tries again.
OpenFail ==
    /\ pc = "read"
    /\ elapsed' = ElapsedAfter(open_backoff)
    /\ age' = AgeAfter(open_backoff)
    /\ pc' = onOpenError.pc
    /\ exit' = onOpenError.exit
    /\ UNCHANGED <<envVars, cfgVars, sinkVars, IsTracked, Offset, size, buffer, line,
                   FinishChan, run, lineEnd, tailStart, grown, held, truncs>>

\* The path opens but is not a regular file: mustBeRegularFile panics, and
\* Harvest's deferred function runs while the panic unwinds.
OpenNotRegular ==
    /\ pc = "read"
    /\ Returned("panic")
    /\ UNCHANGED <<envVars, cfgVars, sinkVars, IsTracked, Offset, size, buffer, line,
                   FinishChan, run, lineEnd, tailStart, grown, held, truncs>>

\* readline wakes from its sleep within the budget and reads again.
EofRetry ==
    /\ pc = "eofsleep"
    /\ ~timedOut(ElapsedAfter(eof_backoff))
    /\ elapsed' = ElapsedAfter(eof_backoff)
    /\ age' = AgeAfter(eof_backoff)
    /\ pc' = "read"
    /\ UNCHANGED <<envVars, cfgVars, sinkVars, IsTracked, Offset, size, buffer, line,
                   exit, FinishChan, run, lineEnd, tailStart, grown, held, truncs>>

\* readline wakes over the budget and returns EOF; the file is not dead yet
\* and Harvest calls readline again.
EofTimeout ==
    /\ pc = "eofsleep"
    /\ timedOut(ElapsedAfter(eof_backoff))
    /\ ~isDead(AgeAfter(eof_backoff))
    /\ elapsed' = 0
    /\ age' = AgeAfter(eof_backoff)
    /\ pc' = "read"
    /\ UNCHANGED <<envVars, cfgVars, sinkVars, IsTracked, Offset, size, buffer, line,
                   exit, FinishChan, run, lineEnd, tailStart, grown, held, truncs>>

\* readline wakes over the budget and returns EOF; the file is dead and
\* Harvest returns.
EofDead ==
    /\ pc = "eofsleep"
    /\ timedOut(ElapsedAfter(eof_backoff))
    /\ isDead(AgeAfter(eof_backoff))
    /\ Returned("dead")
    /\ UNCHANGED <<envVars, cfgVars, sinkVars, IsTracked, Offset, size, buffer, line,
                   FinishChan, run, lineEnd, tailStart, grown, held, truncs>>

\* (a variant whose push is not deferred: a panic in open skips it)
finishValueNotOnPanic(ex) == IF ex = "panic" THEN <<>> ELSE <<Offset>>

\* (a variant that reports the offset only when the file was dead)
finishValueDeadOnly(ex) == IF ex = "dead" THEN <<Offset>> ELSE <<>>

\* (a variant that reports the position read up to, buffered bytes included)
finishValueReadPos(ex) == <<Offset + Len(buffer)>>

\* Harvest's deferred function: h.FinishChan <- h.Offset
finishValue(ex) == <<Offset>>

FinishPush ==
    /\ pc = "finish"
    /\ FinishChan' = FinishChan \o finishValue(exit)
    /\ pc' = "done"
    /\ UNCHANGED <<envVars, cfgVars, sinkVars, IsTracked, Offset, size, buffer, line,
                   elapsed, age, exit, run, lineEnd, tailStart, grown, held, truncs>>

\* ---- the environment ----------------------------------------------------
\* (a variant with a send that does not wait for the sink: the event is dropped)
acceptNonBlocking(n, ev) == [last |-> last, received |-> n]

\* Harvest's send `output <- event` completes: the sink has received the event.
accept(n, ev) == [last |-> ev, received |-> n + 1]

\* The sink receives the event; Harvest goes round its loop and calls readline.

SinkAccept ==
    /\ pc = "push"
    /\ last' = accept(received, event).last
    /\ received' = accept(received, event).received
    /\ event' = <<>>
    /\ prior' = 0
    /\ elapsed' = 0
    /\ pc' = "read"
    /\ UNCHANGED <<envVars, cfgVars, IsTracked, Offset, size, buffer, line, age, exit,
                   FinishChan, run, linesRead, lineEnd, tailStart, grown, held, truncs>>

\* The sink keeps the harvester blocked for longer than the dead-time.
Tick ==
    /\ pc = "push"
    /\ age' = AgeAfter(deadtime + 1)
    /\ UNCHANGED <<envVars, cfgVars, sinkVars, IsTracked, Offset, size, buffer, line,
                   elapsed, pc, exit, FinishChan, run, lineEnd, tailStart, grown, held, truncs>>

\* The harvester has returned; a new one is started on the same path with
\* the reported offset and IsTracked = true.
Restart ==
    /\ pc = "done"
    /\ exit \in {"dead", "aborted"}
    /\ run < MaxRuns
    /\ run' = run + 1
    /\ IsTracked' = TRUE
    /\ Offset' = FinishChan[Len(FinishChan)]
    /\ lineEnd' = FinishChan[Len(FinishChan)]
    /\ size' = 0
    /\ buffer' = <<>>
    /\ line' = 0
    /\ elapsed' = 0
    /\ age' = 0
    /\ pc' = "read"
    /\ exit' = "none"
    /\ tailStart' = -1
    /\ held' = Len(buffer)
    /\ truncs' = 0
    /\ UNCHANGED <<envVars, cfgVars, sinkVars, FinishChan, grown>>

\* The steps of one Harvest invocation and of its sink.
Step ==
    \/ ReadLine
    \/ ReadPartial
    \/ ReadError
    \/ OpenFail
    \/ OpenNotRegular
    \/ EofRetry
    \/ EofTimeout
    \/ EofDead
    \/ FinishPush
    \/ SinkAccept
    \/ Tick

Next == Step \/ Restart

NextRotate == Step \/ ReadTruncated

\* The steps the harvester, the sink and the receiver of FinishChan take
\* when nothing fails.
Progress ==
    \/ ReadLine
    \/ ReadPartial
    \/ EofRetry
    \/ EofTimeout
    \/ EofDead
    \/ FinishPush
    \/ SinkAccept

\* Nothing fails; the writer may truncate the file, and a harvester that
\* has returned may be started again.
NextResumeRotate == Progress \/ ReadTruncated \/ Restart

\* The steps of a harvester of standard input and of its sink.
NextStdin ==
    \/ StdinReadLine
    \/ StdinReadPartial
    \/ StdinReadClosed
    \/ EofRetry
    \/ FinishPush
    \/ SinkAccept
    \/ Tick

Spec == Init /\ [][Next]_vars

StdinSpec == InitStdin /\ [][NextStdin]_vars

ResumeRotateSpec == InitRotate /\ [][NextResumeRotate]_vars

RotateSpec == InitRotate /\ [][NextRotate]_vars

LiveSpec == Init /\ [][Next]_vars /\ WF_vars(Progress)

TypeOK ==
    /\ Len(file) <= MaxFileLen
    /\ pc \in {"read", "eofsleep", "push", "finish", "done"}
    /\ exit \in {"none", "dead", "aborted", "panic"}

\* ---- what the file holds ------------------------------------------------
Range(s) == {s[i] : i \in 1 .. Len(s)}

Last(s) == s[Len(s)]

\* The bytes of f at positions from .. to - 1.
Slice(f, from, to) == SubSeq(f, from + 1, to)

\* A line with its terminator (LF, or CR LF) taken off; raw ends in LF.
Strip(raw) ==
    IF Len(raw) >= 2 /\ raw[Len(raw) - 1] = CR
        THEN SubSeq(raw, 1, Len(raw) - 2)
        ELSE SubSeq(raw, 1, Len(raw) - 1)

\* The position just after the first LF of f at or after position p; -1 if none.
RECURSIVE LineEndAfter(_, _)
LineEndAfter(f, p) ==
    IF p >= Len(f) THEN -1
    ELSE IF f[p + 1] = LF THEN p + 1
    ELSE LineEndAfter(f, p + 1)

\* The terminated lines of f from position p on, in file order.
RECURSIVE LinesFrom(_, _)
LinesFrom(f, p) ==
    LET e == LineEndAfter(f, p)
    IN  IF e = -1 THEN <<>>
        ELSE <<[Offset |-> p, Text |-> Strip(Slice(f, p, e)), End |-> e]>>
             \o LinesFrom(f, e)

\* The length of the terminator that follows a text ending at position p.
TermAt(f, p) ==
    IF p < Len(f) /\ f[p + 1] = LF THEN 1
    ELSE IF p + 1 < Len(f) /\ f[p + 1] = CR /\ f[p + 2] = LF THEN 2
    ELSE 0

\* ---- C1 -----------------------------------------------------------------
\* C1: Harvest pushes to FinishChan exactly once per invocation, only when
\* its loop has ended (on every way out), and the value is h.Offset then.
C1_FinishOnce ==
    /\ Len(FinishChan) = (run - 1) + (IF pc = "done" THEN 1 ELSE 0)
    /\ pc \in {"finish", "done"} <=> exit # "none"
    /\ pc = "done" => Last(FinishChan) = Offset

\* The second harvester has returned on an unexpected read error; both have
\* pushed their offsets.
C1_Witness ==
    /\ run = 2
    /\ pc = "done"
    /\ exit = "aborted"
    /\ FinishChan = <<1, 3>>

\* ---- C2 -----------------------------------------------------------------
\* C2: Offset is always the position just after the last completed line (the
\* position the first open decided when there is none, 0 after a truncation
\* reset); the bytes in the partial-line buffer are never counted in it.
C2_OffsetAfterLastLine ==
    /\ Offset = lineEnd
    /\ LF \notin Range(buffer)
    /\ pc = "push" =>
          /\ Offset > 0
          /\ file[Offset] = LF
          /\ Offset = event.Offset + Len(event.Text) + TermAt(file, event.Offset + Len(event.Text))
    /\ gen = 0 => buffer = Slice(file, Offset, Offset + Len(buffer))

\* After a truncation reset, two chunk reads have buffered two bytes of an
\* unfinished line and readline has timed out once; Offset is still 0.
C2_Witness ==
    /\ truncs = 1
    /\ Offset = 0
    /\ Len(buffer) = 2
    /\ line = 1
    /\ pc = "read"
    /\ elapsed = 0
    /\ age = read_timeout + 1

\* ---- C3 -----------------------------------------------------------------
\* C3: a harvester started fresh at the start of a file emits one event per
\* terminated line, in file order, from the line's first byte; a line that
\* was whole when it was read has the text of the line without its
\* terminator; the unterminated tail is held back, also over EOF timeouts,
\* and once terminated it is emitted once with all its bytes.
FreshFromStart == run = 1 /\ ~tailOnRotate

\* ev is the k-th terminated line of the file, with no byte lost or repeated.
WholeLine(ev, k) ==
    LET ref == LinesFrom(file, 0)
        raw == Slice(file, ref[k].Offset, ref[k].End)
    IN  /\ ev.Line = k
        /\ ev.Offset = ref[k].Offset
        /\ ev.Text \o <<LF>> = raw \/ ev.Text \o <<CR, LF>> = raw

C3_LineIntegrity ==
    FreshFromStart =>
        LET ref == LinesFrom(file, 0)
        IN  /\ line <= Len(ref)
            /\ received = line - (IF pc = "push" THEN 1 ELSE 0)
            /\ pc = "push" =>
                  /\ WholeLine(event, line)
                  /\ prior = 0 => event.Text = ref[line].Text
            /\ received > 0 => WholeLine(last, received)
            /\ ~grown /\ pc = "push" => prior = 0
            /\ LF \notin Range(buffer)
            /\ pc = "eofsleep" \/ exit = "dead" =>
                  /\ line = Len(ref)
                  /\ buffer = Slice(file, Offset, Len(file))

\* One line has been emitted; the next one stayed unterminated over an EOF
\* timeout of readline, was then terminated, and is being emitted.
C3_Witness ==
    /\ FreshFromStart
    /\ pc = "push"
    /\ line = 2
    /\ prior = 1
    /\ elapsed = 0
    /\ last.Text = <<>>
    /\ event.Text = <<"a">>

\* ---- C4 -----------------------------------------------------------------
\* C4: once a truncation has been signalled, the harvester holds and emits
\* only bytes of the new content: the buffer is the part of the new file that
\* follows Offset, and every event is a line of the new file, with that
\* line's offset and all of its bytes (so the first one has Offset 0 and is
\* the first line, none is skipped, and no byte written before the truncation
\* appears in it).
C4_TruncationRecovery ==
    truncs > 0 =>
        LET ref == LinesFrom(file, 0)
        IN  /\ Offset + Len(buffer) <= Len(file)
            /\ buffer = Slice(file, Offset, Offset + Len(buffer))
            /\ DataByte(0) \notin Range(buffer)
            /\ pc = "push" =>
                  /\ DataByte(0) \notin Range(event.Text)
                  /\ \E k \in 1 .. Len(ref) :
                        LET raw == Slice(file, ref[k].Offset, ref[k].End)
                        IN  /\ event.Offset = ref[k].Offset
                            /\ Offset = ref[k].End
                            /\ event.Text \o <<LF>> = raw \/ event.Text \o <<CR, LF>> = raw

\* ---- C5 -----------------------------------------------------------------
\* C5: the text of every event is its line without the terminator, CR LF
\* when the byte before the LF is CR and LF otherwise, however the bytes of
\* the line were split over chunk reads; Offset advances over the text and
\* the terminator.
C5_TerminatorStripped ==
    pc = "push" =>
        LET raw == Slice(file, event.Offset, Offset)
        IN  /\ Len(raw) > 0
            /\ raw[Len(raw)] = LF
            /\ event.Text = Strip(raw)
            /\ Offset = event.Offset + Len(event.Text)
                          + (IF Len(raw) >= 2 /\ raw[Len(raw) - 1] = CR THEN 2 ELSE 1)

\* ---- C6 -----------------------------------------------------------------
\* C6: while the writer has not truncated the file, each event's Offset is
\* the position of the first byte of its line (0, or just after an LF), the
\* first event of a harvester started at 0 has Offset 0, and the next
\* event's Offset is the previous event's Offset plus the length of its text
\* plus the length of the terminator that follows the text (1 for LF, 2 for
\* CR LF), with the next line number; Offset decreases only in a truncation
\* reset, and then to 0.
C6_Contiguous ==
    (pc = "push" /\ gen = 0) =>
        /\ event.Offset = 0 \/ file[event.Offset] = LF
        /\ received = 0 => event.Offset = 0
        /\ received > 0 =>
              LET textEnd == last.Offset + Len(last.Text)
              IN  /\ TermAt(file, textEnd) \in {1, 2}
                  /\ event.Offset = textEnd + TermAt(file, textEnd)
                  /\ event.Offset > last.Offset
                  /\ event.Line = last.Line + 1

C6_Monotone ==
    Offset' < Offset => (Offset' = 0 /\ truncs' = truncs + 1)

C6_OffsetsInOrder == [](C6_Contiguous) /\ [][C6_Monotone]_vars

\* The line "" ended by CR LF has been delivered with Offset 0, and the next
\* event, being pushed, has Offset 2.
C6_Witness ==
    /\ gen = 0
    /\ pc = "push"
    /\ received = 1
    /\ last = FileEvent(0, 1, <<>>)
    /\ event.Offset = 2
    /\ file[2] = LF

\* ---- C7 -----------------------------------------------------------------
\* C7: on a file that does not change after the first harvester first read
\* it, the harvesters started one after another, each with the offset the
\* previous one reported and IsTracked = true, emit between them the
\* terminated lines of the file from the first harvester's start position,
\* each once and in order, with the line's offset and text; every reported
\* offset is the end of the last line emitted so far, whatever the
\* harvester had buffered when it returned.
C7_Resumable ==
    ~grown =>
        LET start == IF tailOnRotate THEN Len(file) ELSE 0
            ref == LinesFrom(file, start)
        IN  /\ linesRead <= Len(ref)
            /\ received = linesRead - (IF pc = "push" THEN 1 ELSE 0)
            /\ pc = "push" =>
                  /\ event.Offset = ref[linesRead].Offset
                  /\ event.Text = ref[linesRead].Text
            /\ received > 0 =>
                  /\ last.Offset = ref[received].Offset
                  /\ last.Text = ref[received].Text
            /\ pc = "eofsleep" \/ exit = "dead" => linesRead = Len(ref)
            /\ (pc = "done" /\ exit # "panic") =>
                  Last(FinishChan) = (IF linesRead = 0 THEN start ELSE ref[linesRead].End)

\* The first harvester emitted one line and returned with one byte of the
\* second line buffered; the second harvester is emitting the second line.
C7_Witness ==
    /\ ~grown
    /\ run = 2
    /\ held > 0
    /\ pc = "push"
    /\ line = 1
    /\ linesRead = 2
    /\ received = 1
    /\ event.Text = <<"a">>

\* ---- C8 -----------------------------------------------------------------
\* C8: when opening and reading do not fail, time passes and the receiver
\* of FinishChan takes the value, every Harvest invocation terminates: an
\* EOF timeout of readline that finds the time since the last line within
\* the dead-time is the only one Harvest goes on from, one that finds it
\* above the dead-time makes Harvest return, and the value FinishChan
\* receives then is the position just after the last emitted line.
C8_DeadStops ==
    (pc = "eofsleep" /\ timedOut(ElapsedAfter(eof_backoff))) =>
        IF AgeAfter(eof_backoff) > deadtime
            THEN pc' = "finish" /\ exit' = "dead" /\ Offset' = Offset
            ELSE pc' = "read" /\ exit' = "none"

C8_DeadOffset ==
    (pc = "done" /\ exit = "dead") => Last(FinishChan) = lineEnd

C8_DeadTimeTermination ==
    /\ []<>(pc = "done")
    /\ [](C8_DeadOffset)
    /\ [][C8_DeadStops]_vars

\* A harvester with the long dead-time emitted a line, then found the file
\* idle over two EOF timeouts, returned and reported the end of that line.
C8_Witness ==
    /\ deadtime = MaxDeadtime
    /\ pc = "done"
    /\ exit = "dead"
    /\ run = 1
    /\ linesRead = 1
    /\ FinishChan = <<2>>
    /\ Len(buffer) = 1

\* ---- C9 -----------------------------------------------------------------
\* C9: every line read is either delivered or the one event being pushed;
\* while an event is being pushed the harvester reads nothing and builds no
\* other event, whatever time passes, until the sink accepts exactly that
\* event; the sink receives nothing else.
C9_NothingLost ==
    /\ received + (IF pc = "push" THEN 1 ELSE 0) = linesRead
    /\ pc = "push" <=> event # <<>>
    /\ (run = 1 /\ pc = "push") => event.Line = received + 1
    /\ (run = 1 /\ received > 0) => last.Line = received

C9_Blocked ==
    /\ pc = "push" =>
          \/ UNCHANGED <<file, gen, IsTracked, Offset, size, buffer, line, linesRead,
                         event, last, received, pc>>
          \/ /\ received' = received + 1
             /\ last' = event
             /\ pc' = "read"
             /\ UNCHANGED <<file, gen, IsTracked, Offset, size, buffer, line, linesRead>>
    /\ <<received, last>>' # <<received, last>> => pc = "push"
    /\ linesRead' # linesRead =>
          pc = "read" /\ pc' = "push" /\ linesRead' = linesRead + 1 /\ event' # <<>>

C9_Backpressure == [](C9_NothingLost) /\ [][C9_Blocked]_vars

\* The sink kept the harvester blocked on its second event for longer than
\* the dead-time; the event is still pending and nothing else was read.
C9_Witness ==
    /\ pc = "push"
    /\ deadtime = MaxDeadtime
    /\ age = MaxDeadtime + 1
    /\ received = 1
    /\ linesRead = 2
    /\ event.Line = 2

\* ---- C10 ----------------------------------------------------------------
\* C10: the first harvester decides its position at its first open and only
\* there: the file's end in tail mode, 0 otherwise, with IsTracked set; from
\* then on IsTracked stays set and Offset moves only forward, by completed
\* lines.  In tail mode (the writer only appends) the events are the lines
\* of the file from the size seen at the first open, none below it and none
\* skipped.
C10_Decided ==
    run = 1 =>
        /\ ~IsTracked => Offset = 0 /\ line = 0 /\ tailStart = -1
        /\ tailOnRotate => (IsTracked <=> tailStart # -1)
        /\ (IsTracked /\ line = 0) => Offset = (IF tailOnRotate THEN tailStart ELSE 0)
        /\ (IsTracked /\ tailOnRotate) =>
              LET ref == LinesFrom(file, tailStart)
              IN  /\ tailStart <= Offset
                  /\ line <= Len(ref)
                  /\ pc = "push" =>
                        /\ event.Offset >= tailStart
                        /\ event.Offset = ref[line].Offset
                        /\ Offset = ref[line].End
                  /\ received > 0 => last.Offset >= tailStart
                  /\ pc = "eofsleep" =>
                        /\ line = Len(ref)
                        /\ buffer = Slice(file, Offset, Len(file))

C10_Once ==
    /\ IsTracked => IsTracked'
    /\ (run' = run /\ IsTracked) => tailStart' = tailStart
    /\ (run' = run /\ IsTracked /\ Offset' # Offset) =>
          pc = "read" /\ pc' = "push" /\ Offset' > Offset

C10_InitialPosition == [](C10_Decided) /\ [][C10_Once]_vars

\* A tailing harvester first opened the file when it held one byte of an
\* unfinished line; the rest of the line was appended and is being emitted
\* from position 1.
C10_Witness ==
    /\ tailOnRotate
    /\ run = 1
    /\ tailStart = 1
    /\ pc = "push"
    /\ event = FileEvent(1, 1, <<"a">>)
    /\ file = <<"a", "a", LF>>

\* ---- C11 ----------------------------------------------------------------
\* C11: within one Harvest invocation the events carry the line numbers
\* 1, 2, 3, ... in emission order; the counter is 0 when a harvester
\* starts, also one that resumes from a non-zero offset, it changes only by
\* one when a line is read, and a truncation reset or an EOF timeout leaves
\* it as it is.
C11_Numbered ==
    /\ pc = "push" => (line >= 1 /\ event.Line = line)
    /\ (pc = "push" /\ line > 1) => last.Line = line - 1
    /\ (pc # "push" /\ line >= 1) => last.Line = line

C11_Counted ==
    /\ run' # run => (run' = run + 1 /\ line' = 0)
    /\ (run' = run /\ line' # line) =>
          /\ line' = line + 1
          /\ pc = "read" /\ pc' = "push"
          /\ event'.Line = line'
    /\ truncs' = truncs + 1 => line' = line
    /\ pc = "eofsleep" => line' = line

C11_LineNumbers == [](C11_Numbered) /\ [][C11_Counted]_vars

\* The second harvester resumed from offset 1 and emits its first event with
\* line number 1, after the first harvester's event with line number 1.
C11_Witness ==
    /\ run = 2
    /\ pc = "push"
    /\ event.Line = 1
    /\ event.Offset = 1
    /\ last.Line = 1
    /\ last.Offset = 0

\* ---- C12 ----------------------------------------------------------------
\* How the loop of Harvest is left, when only the exits in `ways` exist:
\* dead, when readline timed out at EOF and the time since last_read_time is
\* strictly above the dead-time; aborted, on a read error that is neither
\* EOF nor truncation; panic, when open finds that the path is not a regular
\* file.  No event is emitted in the step that leaves the loop.
C12_Leaves(ways) ==
    (exit = "none" /\ exit' # "none") =>
        /\ exit' \in ways
        /\ pc' = "finish"
        /\ exit' = "dead" =>
              /\ pc = "eofsleep"
              /\ ElapsedAfter(eof_backoff) > read_timeout
              /\ AgeAfter(eof_backoff) > deadtime
        /\ exit' = "aborted" => (pc = "read" /\ truncs' = truncs)
        /\ exit' = "panic" => (pc = "read" /\ UNCHANGED <<file, buffer, size>>)
        /\ UNCHANGED <<event, last, received, linesRead, line>>

\* A truncation signal, and an EOF outcome with the dead-time not exceeded,
\* keep the loop going and emit no event.
C12_Continues ==
    /\ truncs' = truncs + 1 =>
          /\ exit' = "none" /\ pc' = "read"
          /\ UNCHANGED <<event, last, received, linesRead, line>>
    /\ (pc = "eofsleep" /\ AgeAfter(eof_backoff) <= deadtime) =>
          /\ exit' = "none" /\ pc' = "read"
          /\ UNCHANGED <<event, last, received, linesRead, line>>

C13_ChunkRead ==
    /\ pc = "read"
    /\ truncs' # truncs \/ pc' \in {"push", "eofsleep"} \/ exit' = "aborted"

\* C13: a chunk read signals truncation exactly when the size it observes
\* is strictly smaller than the size the previous read recorded, and then
\* no byte is read; every chunk read records the size it observed; a new
\* harvester starts with no size recorded, so its first read never signals;
\* there are no more signals than shrinks.
C13_Signals ==
    /\ C13_ChunkRead =>
          /\ size' = Len(file')
          /\ truncs' = truncs + 1 <=> Len(file') < size
          /\ truncs' = truncs + 1 =>
                (buffer' = buffer /\ UNCHANGED <<event, linesRead, line>>)
          /\ truncs' # truncs + 1 => truncs' = truncs
    /\ truncs' # truncs => (C13_ChunkRead \/ run' = run + 1)
    /\ run' = run + 1 => size' = 0

C13_Recorded ==
    /\ size <= Len(file) \/ gen > 0
    /\ truncs <= gen
    /\ (size = 0 /\ pc = "read") => ~ENABLED ReadTruncated

C13_TruncationSignal == [](C13_Recorded) /\ [][C13_Signals]_vars

\* The file shrank from three buffered bytes to one: the read after the
\* shrink signalled truncation and recorded size 1, the next read did not
\* signal.
C13_Witness ==
    /\ truncs = 1
    /\ gen = 1
    /\ pc = "eofsleep"
    /\ size = 1
    /\ Len(file) = 1
    /\ Len(buffer) = 3

\* ---- C14 ----------------------------------------------------------------
\* C14: on a file that is only appended to, the buffer is always the file
\* bytes from Offset on, and reaches the end of the file whenever readline
\* sleeps at EOF; a chunk read that does not complete a line appends to the
\* buffer file bytes starting at Offset plus the buffer's length, and one
\* that completes a line emits the buffer followed by the bytes from there
\* up to the LF: no byte is read twice and none is skipped.
C14_BufferIsFile ==
    /\ Offset + Len(buffer) <= Len(file)
    /\ buffer = Slice(file, Offset, Offset + Len(buffer))
    /\ pc = "eofsleep" => Offset + Len(buffer) = Len(file)
    /\ pc = "push" =>
          /\ Offset <= Len(file)
          /\ \/ event.Text \o <<LF>> = Slice(file, event.Offset, Offset)
             \/ event.Text \o <<CR, LF>> = Slice(file, event.Offset, Offset)

C14_Appends ==
    /\ (pc = "read" /\ pc' = "eofsleep") =>
          /\ Len(buffer') >= Len(buffer)
          /\ buffer' = buffer \o Slice(file', Offset' + Len(buffer), Len(file'))
    /\ (pc = "read" /\ exit' = "aborted") =>
          /\ Len(buffer') >= Len(buffer)
          /\ buffer' = buffer \o Slice(file', Offset' + Len(buffer), Offset' + Len(buffer'))
    /\ (pc = "read" /\ pc' = "push") =>
          /\ buffer' = <<>>
          /\ Offset' >= event'.Offset + Len(buffer) + 1
          /\ LF \notin Range(Slice(file', event'.Offset, Offset' - 1))
          /\ SubSeq(event'.Text, 1, Len(buffer)) = buffer
    /\ (pc \in {"eofsleep", "push"}) => UNCHANGED <<buffer, Offset, file>>

C14_ChunkPosition == [](C14_BufferIsFile) /\ [][C14_Appends]_vars

\* After the first line, two bytes of the second were buffered by chunk
\* reads on either side of an EOF timeout, as the file grew.
C14_Witness ==
    /\ grown
    /\ run = 1
    /\ Offset = 1
    /\ Len(buffer) = 2
    /\ pc = "eofsleep"
    /\ elapsed = 0
    /\ age = MaxDeadtime

\* ---- C15 ----------------------------------------------------------------
\* What follows a read error other than EOF and truncation, apart from
\* Offset: Harvest leaves its loop at once, without an event, also when
\* bytes came with the error, and this harvester reads nothing afterwards.
C15_Stops ==
    /\ (exit = "none" /\ exit' = "aborted") =>
          /\ pc = "read" /\ pc' = "finish"
          /\ UNCHANGED <<event, last, received, linesRead, line>>
    /\ (exit = "aborted" /\ run' = run) =>
          UNCHANGED <<file, size, buffer, Offset, event, last, received, linesRead, line, exit>>

\* C15 (as stated): on a read error other than EOF and truncation Harvest
\* stops: no further chunk read, no event (not even for bytes that came with
\* the error), and Offset keeps the value it had before the failed read.
C15_OffsetKept ==
    [][C15_Stops /\ ((exit = "none" /\ exit' = "aborted") => Offset' = Offset)]_vars

\* C15 (amended): on a read error other than EOF and truncation Harvest
\* stops: no further chunk read, no event (not even for bytes that came with
\* the error), and Offset keeps the value it had before the failed read,
\* unless that read made the first open of an untracked harvester: then
\* Offset is the position that open decided (the file's end in tail mode,
\* 0 otherwise).
C15_OffsetAsOpened ==
    /\ [](exit = "aborted" => (pc \in {"finish", "done"} /\ event = <<>>))
    /\ [][/\ C15_Stops
          /\ (exit = "none" /\ exit' = "aborted") =>
                Offset' = (IF IsTracked THEN Offset
                           ELSE IF tailOnRotate THEN Len(file') ELSE 0)]_vars

\* The first read of a tailing harvester found two bytes in the file and
\* failed: Harvest returns with Offset 2 and no event.
C15_Witness ==
    /\ exit = "aborted"
    /\ pc = "finish"
    /\ run = 1
    /\ tailOnRotate
    /\ linesRead = 0
    /\ Offset = 2
    /\ Len(file) = 2

\* ---- C16 ----------------------------------------------------------------
\* C16: while opening fails, time passes in open's back-off and nothing
\* else happens: Harvest stays in the same chunk read, does not terminate,
\* emits no event, changes neither Offset nor IsTracked nor what it has
\* buffered, and pushes nothing to FinishChan, however long the file has
\* been idle; the read that follows a successful open is therefore made from
\* the same Offset.
C16_OpenBackoff ==
    (pc = "read" /\ (pc' = "read" \/ elapsed' > elapsed \/ age' > age)) =>
        /\ pc' = "read"
        /\ exit' = "none"
        /\ elapsed' = Min(elapsed + open_backoff, read_timeout + 1)
        /\ age' = Min(age + open_backoff, deadtime + 1)
        /\ UNCHANGED <<file, IsTracked, Offset, size, buffer, line, event, last,
                       received, linesRead, FinishChan, run>>

C16_OpenRetried ==
    /\ [](pc = "read" => (exit = "none" /\ ENABLED OpenFail))
    /\ [][C16_OpenBackoff]_vars

\* After one line, opening has failed for longer than readline's timeout
\* and than the dead-time; the harvester is still in its chunk read.
C16_Witness ==
    /\ pc = "read"
    /\ exit = "none"
    /\ deadtime = MaxDeadtime
    /\ elapsed = read_timeout + 1
    /\ age = MaxDeadtime + 1
    /\ line = 1
    /\ Offset = 2

\* ---- C17 ----------------------------------------------------------------
\* C17: readline wakes from each 1-second sleep either within the budget,
\* and reads again, or with more than eof_timeout elapsed since the call
\* began, and only then gives up; a chunk read that buffers partial bytes
\* leaves the time elapsed as it is; giving up changes neither Offset nor
\* the line counter nor the buffer and emits no event.
C17_GivesUp ==
    (pc = "eofsleep" /\ (exit' = "dead" \/ (pc' = "read" /\ elapsed' = 0))) =>
        /\ elapsed + eof_backoff > read_timeout
        /\ UNCHANGED <<file, IsTracked, Offset, size, buffer, line, event, last,
                       received, linesRead>>

C17_Waits ==
    /\ (pc = "eofsleep" /\ pc' = "read" /\ elapsed' # 0) =>
          /\ elapsed' = elapsed + eof_backoff
          /\ elapsed' <= read_timeout
          /\ UNCHANGED <<file, IsTracked, Offset, size, buffer, line, event, last,
                         received, linesRead>>
    /\ pc = "eofsleep" => (pc' = "read" \/ exit' = "dead")
    /\ (pc = "read" /\ pc' = "eofsleep") =>
          (elapsed' = elapsed /\ UNCHANGED <<line, event>>)

C17_EofTimeout == [][C17_GivesUp /\ C17_Waits]_vars

\* readline gave up after its budget although bytes of an unfinished line
\* arrived while it waited: both bytes are still buffered, Offset and the
\* line counter are 0, and the next readline call starts.
C17_Witness ==
    /\ pc = "read"
    /\ run = 1
    /\ grown
    /\ elapsed = 0
    /\ age = MaxDeadtime
    /\ Len(buffer) = 2
    /\ Offset = 0
    /\ line = 0

\* ---- C18 ----------------------------------------------------------------
\* C18: for each line read, the event carries the counter's value after its
\* increment and the Offset before its advance, and the last-activity
\* timestamp is reset after the push: when the sink has accepted the event
\* no time has passed since the last activity, so the time the harvester was
\* blocked on the sink is not part of the idle time compared with the
\* dead-time.
C18_Order ==
    pc = "push" =>
        /\ event.Line = line
        /\ event.Offset < Offset

C18_StampAfterPush ==
    (pc = "push" /\ pc' = "read") => age' = 0

C18_ActivityAfterPush == [](C18_Order) /\ [][C18_StampAfterPush]_vars

\* ---- C19 ----------------------------------------------------------------
\* C19: when open finds that the path is not a regular file, Harvest is left
\* at once and for good: IsTracked and Offset are as they were before that
\* open, nothing is read, no event is emitted, this harvester is not started
\* again, and the push of Offset to FinishChan is still made.
C19_Panics ==
    /\ (exit = "none" /\ exit' = "panic") =>
          /\ pc = "read" /\ pc' = "finish"
          /\ UNCHANGED <<file, IsTracked, Offset, size, buffer, line, event, last,
                         received, linesRead, FinishChan>>
    /\ exit = "panic" =>
          /\ exit' = "panic" /\ run' = run
          /\ UNCHANGED <<file, IsTracked, Offset, size, buffer, line, event, last,
                         received, linesRead>>

C19_Reported ==
    exit = "panic" =>
        /\ event = <<>>
        /\ pc \in {"finish", "done"}
        /\ pc = "finish" => ENABLED FinishPush
        /\ pc = "done" => (Len(FinishChan) = run /\ Last(FinishChan) = Offset)

C19_NotRegularFile == [](C19_Reported) /\ [][C19_Panics]_vars

\* The first open of a tailing harvester found something that is not a
\* regular file: no position was decided, and Offset 0 has been reported.
C19_Witness ==
    /\ exit = "panic"
    /\ pc = "done"
    /\ tailOnRotate
    /\ ~IsTracked
    /\ Offset = 0
    /\ FinishChan = <<0>>

\* ---- C20 ----------------------------------------------------------------
\* C20: with Path "-" the harvester keeps reading standard input through a
\* handle that stays usable: no chunk read fails on it, and whenever the
\* harvester waits at the end of the input it has emitted one event for
\* every line of the input.
C20_StdinKeepsReading ==
    Path = "-" =>
        /\ exit # "panic"
        /\ pc = "eofsleep" => linesRead = Len(LinesFrom(file, 0))
====
